---- MODULE Spec2Model ----
(***************************************************************************)
(* A model of cert_checker.py: one run of main() -- the thread pool that   *)
(* fetches the certificates, the classification of every outcome, the      *)
(* alert channels and the exit code.                                       *)
(*                                                                         *)
(* Python values.  An optional value (None or v) is the set {} or {v}.     *)
(* A dict is a record; a key the dict does not hold is a field the record  *)
(* does not have, and d.get(k, default) is Get(d, k, default).             *)
(***************************************************************************)
EXTENDS Integers, Sequences, FiniteSets, TLC

VARIABLES
  config,        \* self.config, as loaded by __init__
  quiet,         \* args.quiet
  network,       \* what each hostname may answer to a fetch in this run
  now,           \* datetime.now(), in ticks
  pc,            \* position of the main thread
  futures,       \* the futures submitted so far, in submission order; each
                 \* keeps the answer its host gave
  nthreads,      \* worker threads the executor has started
  calls,         \* the invocations of get_certificate_expiry, in order
  processed,     \* the futures as_completed has yielded, in that order
  results,       \* self.results
  displayed,     \* display_results has printed the report
  alert_results, \* the list send_alerts filtered, None before that
  email,         \* what _send_email_alert was given and did, None if not called
  webhook,       \* what _send_webhook_alert was given and did, None if not called
  exit_code      \* the code given to sys.exit, None while running

vars == <<config, quiet, network, now, pc, futures, nthreads, calls, processed,
          results, displayed, alert_results, email, webhook, exit_code>>

----------------------------------------------------------------------------
(* Bounds of the model *)

MaxHosts == 2

MaxWorkers == 2

MaxThreshold == 1

MaxClock == 1

TicksPerDay == 2

(* Constants of the program *)

DefaultPort == 443

DefaultMaxWorkers == 5

DefaultCritical == 7

DefaultWarning == 30

ExitCritical == 2

ExitError == 1

ExitOk == 0

----------------------------------------------------------------------------
(* Python values *)

None == {}

Some(v) == {v}

Val(o) == CHOOSE v \in o : TRUE

Get(d, k, default) == IF k \in DOMAIN d THEN d[k] ELSE default

\* truth value of an Optional[str]: None and "" are false
TruthyStr(o) == o # None /\ Val(o) # ""

\* truth value of an Optional[datetime]: every datetime is true
TruthyDate(o) == o # None

\* str() of an Optional[int]
StrOptInt(o) == IF o = None THEN "None" ELSE ToString(Val(o))

\* str() of an Optional[str]
StrOptStr(o) == IF o = None THEN "None" ELSE Val(o)

----------------------------------------------------------------------------
(* get_certificate_expiry *)

\* What a host may answer: a certificate with its notAfter instant, or one
\* of the failures the function tells apart.
Cert(t) == [kind |-> "cert", notAfter |-> t]

Timeout == [kind |-> "socket.timeout"]

DnsFailure == [kind |-> "socket.gaierror"]

TlsFailure == [kind |-> "ssl.SSLError", detail |-> "certificate verify failed"]

OtherFailure == [kind |-> "Exception", detail |-> "connection refused"]

\* The tuple (hostname, expiry_date, error_message) the call returns.
get_certificate_expiry(hostname, answer) ==
  IF answer.kind = "cert" THEN <<hostname, Some(answer.notAfter), None>>
  ELSE IF answer.kind = "socket.timeout"
    THEN <<hostname, None, Some("Connection timeout for " \o hostname)>>
  ELSE IF answer.kind = "socket.gaierror"
    THEN <<hostname, None, Some("DNS resolution failed for " \o hostname)>>
  ELSE IF answer.kind = "ssl.SSLError"
    THEN <<hostname, None,
           Some("SSL error for " \o hostname \o ": " \o answer.detail)>>
  ELSE <<hostname, None,
         Some("Unexpected error for " \o hostname \o ": " \o answer.detail)>>

----------------------------------------------------------------------------
(* check_all_certificates: the classification of one completed future *)

\* (expiry_date - datetime.now()).days: timedelta.days rounds towards
\* minus infinity.
DaysUntilExpiry(expiry_date, t) == (expiry_date - t) \div TicksPerDay

\* Mutant: the error is never looked at.
InitialStatusOk(error) == "OK"

InitialStatus(error) == IF TruthyStr(error) THEN "ERROR" ELSE "OK"

\* Mutant: the warning threshold is tested before the critical one.
ThresholdStatusWarningFirst(days, thresholds) ==
  IF days <= Get(thresholds, "warning", DefaultWarning) THEN "WARNING"
  ELSE IF days <= Get(thresholds, "critical", DefaultCritical) THEN "CRITICAL"
  ELSE "OK"

ThresholdStatus(days, thresholds) ==
  IF days <= Get(thresholds, "critical", DefaultCritical) THEN "CRITICAL"
  ELSE IF days <= Get(thresholds, "warning", DefaultWarning) THEN "WARNING"
  ELSE "OK"

\* Mutant: the block is looked up under a key the configuration never has.
ThresholdsWrongKey == Get(config, "threshold", <<>>)

Thresholds == Get(config, "thresholds", <<>>)

\* Mutant: the error of the turn before is still there when a fetch brings none.
MakeResultStaleError(site, ret, t) ==
  LET hostname == ret[1]
      expiry_date == ret[2]
      error == IF ret[3] = None /\ results # <<>>
                 THEN results[Len(results)].error ELSE ret[3]
      base == [hostname |-> hostname,
               port |-> Get(site, "port", DefaultPort),
               expiry_date |-> expiry_date,
               error |-> error,
               days_until_expiry |-> None,
               status |-> IF TruthyStr(error) THEN "ERROR" ELSE "OK"]
  IN IF TruthyDate(expiry_date)
       THEN LET days == (Val(expiry_date) - t) \div TicksPerDay
            IN [base EXCEPT !.days_until_expiry = Some(days),
                            !.status = ThresholdStatus(days, Get(config, "thresholds", <<>>))]
       ELSE base

\* The result dict built from a future's site and its returned tuple.
MakeResult(site, ret, t) ==
  LET hostname == ret[1]
      expiry_date == ret[2]
      error == ret[3]
      base == [hostname |-> hostname,
               port |-> Get(site, "port", DefaultPort),
               expiry_date |-> expiry_date,
               error |-> error,
               days_until_expiry |-> None,
               status |-> InitialStatus(error)]
  IN IF TruthyDate(expiry_date)
       THEN LET days == DaysUntilExpiry(Val(expiry_date), t)
            IN [base EXCEPT !.days_until_expiry = Some(days),
                            !.status = ThresholdStatus(days, Thresholds)]
       ELSE base

----------------------------------------------------------------------------
(* check_all_certificates: the thread pool *)

Websites == Get(config, "websites", <<>>)

ConfiguredMaxWorkers == Get(config, "max_workers", DefaultMaxWorkers)

InState(st) == {i \in 1..Len(futures) : futures[i].state = st}

\* Mutant: a worker whose fetch failed never comes back for the next item.
RunningOrLost ==
  InState("running")
  \cup {i \in InState("finished") : Val(futures[i].ret)[2] = None}

Running == InState("running")

\* Mutant: a thread per submission, whatever max_workers says.
AdjustThreadCountUnbounded(n, max_workers) == n + 1

\* ThreadPoolExecutor.submit starts one more worker thread while fewer than
\* max_workers exist (an interpreter that first looks for an idle worker
\* starts fewer threads, never more).
AdjustThreadCount(n, max_workers) == IF n < max_workers THEN n + 1 ELSE n

\* A worker thread that is not running a fetch is free to take the next item.
WorkerFree == Cardinality(Running) < nthreads

\* The work queue is first in, first out.
NextQueued == CHOOSE i \in InState("pending") : \A j \in InState("pending") : i <= j

\* as_completed has yielded every future.
Yielded == {processed[k] : k \in 1..Len(processed)}

\* Mutant: the return statement sits inside the loop.
ReturnInsideLoop == processed # <<>> \/ futures = <<>>

AsCompletedExhausted == Yielded = 1..Len(futures)

CheckAllStart ==
  /\ pc = "start"
  /\ pc' = IF Websites = <<>> THEN "collect" ELSE "submit"
  /\ UNCHANGED <<config, quiet, network, now, futures, nthreads, calls, processed,
                 results, displayed, alert_results, email, webhook, exit_code>>

Submit ==
  /\ pc = "submit"
  /\ LET site == Websites[Len(futures) + 1]
     IN futures' = Append(futures, [site |-> site,
                                    hostname |-> site.hostname,
                                    port |-> Get(site, "port", DefaultPort),
                                    state |-> "pending",
                                    answer |-> None,
                                    ret |-> None])
  /\ nthreads' = AdjustThreadCount(nthreads, ConfiguredMaxWorkers)
  /\ pc' = IF Len(futures') = Len(Websites) THEN "collect" ELSE "submit"
  /\ UNCHANGED <<config, quiet, network, now, calls, processed, results, displayed,
                 alert_results, email, webhook, exit_code>>

FetchStart ==
  /\ InState("pending") # {}
  /\ WorkerFree
  /\ LET i == NextQueued
     IN /\ futures' = [futures EXCEPT ![i].state = "running"]
        /\ calls' = Append(calls, <<futures[i].hostname, futures[i].port>>)
  /\ UNCHANGED <<config, quiet, network, now, pc, nthreads, processed, results,
                 displayed, alert_results, email, webhook, exit_code>>

\* Mutant: the worker records the result itself, next to the loop that does.
FetchFinishAppending(i) ==
  /\ futures[i].state = "running"
  /\ \E answer \in network[futures[i].hostname] :
       /\ futures' = [futures EXCEPT
                        ![i].state = "finished",
                        ![i].answer = Some(answer),
                        ![i].ret = Some(get_certificate_expiry(futures[i].hostname, answer))]
       /\ results' = Append(results,
                            MakeResult(futures[i].site,
                                       get_certificate_expiry(futures[i].hostname, answer),
                                       now))
  /\ UNCHANGED <<config, quiet, network, now, pc, nthreads, calls, processed,
                 displayed, alert_results, email, webhook, exit_code>>

FetchFinish(i) ==
  /\ futures[i].state = "running"
  /\ \E answer \in network[futures[i].hostname] :
       futures' = [futures EXCEPT
                     ![i].state = "finished",
                     ![i].answer = Some(answer),
                     ![i].ret = Some(get_certificate_expiry(futures[i].hostname, answer))]
  /\ UNCHANGED <<config, quiet, network, now, pc, nthreads, calls, processed, results,
                 displayed, alert_results, email, webhook, exit_code>>

\* One turn of the loop over as_completed(futures).
Collect(i) ==
  /\ pc = "collect"
  /\ futures[i].state = "finished"
  /\ i \notin Yielded
  /\ processed' = Append(processed, i)
  /\ results' = Append(results, MakeResult(futures[i].site, Val(futures[i].ret), now))
  /\ UNCHANGED <<config, quiet, network, now, pc, futures, nthreads, calls, displayed,
                 alert_results, email, webhook, exit_code>>

\* Mutant: the method returns once everything is submitted, without waiting.
CheckAllReturnEarly ==
  /\ pc = "collect"
  /\ pc' = "checked"
  /\ UNCHANGED <<config, quiet, network, now, futures, nthreads, calls, processed,
                 results, displayed, alert_results, email, webhook, exit_code>>

\* The loop ends, the executor shuts down (wait=True) and the method returns.
CheckAllReturn ==
  /\ pc = "collect"
  /\ AsCompletedExhausted
  /\ InState("pending") \cup Running = {}
  /\ pc' = "checked"
  /\ UNCHANGED <<config, quiet, network, now, futures, nthreads, calls, processed,
                 results, displayed, alert_results, email, webhook, exit_code>>

----------------------------------------------------------------------------
(* display_results *)

\* datetime.strftime('%Y-%m-%d'): the calendar day of the instant.
StrfDate(t) == "day " \o ToString(t \div TicksPerDay)

\* What the report prints for one result.
DisplayEntry(r) ==
  IF TruthyStr(r.error)
    THEN <<"Website: " \o r.hostname \o ":" \o ToString(r.port),
           "Status: " \o r.status,
           "Error: " \o Val(r.error)>>
    ELSE <<"Website: " \o r.hostname \o ":" \o ToString(r.port),
           "Status: " \o r.status,
           "Certificate Expiry Date: " \o StrfDate(Val(r.expiry_date)),
           "Days Until Expiry: " \o ToString(Val(r.days_until_expiry)) \o " days">>
         \o (IF Val(r.days_until_expiry) < 0
               THEN <<"CERTIFICATE HAS EXPIRED!">> ELSE <<>>)

display_results == [i \in 1..Len(results) |-> DisplayEntry(results[i])]

\* Mutant: the report runs the check once more, which appends every result again.
DisplayRechecking ==
  /\ pc = "checked"
  /\ results' = IF quiet THEN results ELSE results \o results
  /\ displayed' = IF quiet THEN None
                  ELSE Some([i \in 1..Len(results') |-> DisplayEntry(results'[i])])
  /\ pc' = "alerts"
  /\ UNCHANGED <<config, quiet, network, now, futures, nthreads, calls, processed,
                 alert_results, email, webhook, exit_code>>

\* main: "if not args.quiet: checker.display_results()"
Display ==
  /\ pc = "checked"
  /\ displayed' = IF quiet THEN None ELSE Some(display_results)
  /\ pc' = "alerts"
  /\ UNCHANGED <<config, quiet, network, now, futures, nthreads, calls, processed,
                 results, alert_results, email, webhook, exit_code>>

----------------------------------------------------------------------------
(* The renderings of an alert *)

\* One <tr> of the e-mail table: the five cells.
EmailRow(r) ==
  [website |-> r.hostname \o ":" \o ToString(r.port),
   status |-> r.status,
   days |-> IF "days_until_expiry" \in DOMAIN r
              THEN StrOptInt(r.days_until_expiry) ELSE "N/A",
   expiry |-> IF TruthyDate(r.expiry_date) THEN StrfDate(Val(r.expiry_date)) ELSE "N/A",
   details |-> IF "error" \in DOMAIN r
                 THEN StrOptStr(r.error) ELSE "Certificate expiring soon"]

create_alert_message_email(rs) == [i \in 1..Len(rs) |-> EmailRow(rs[i])]

SlackColor(status) ==
  IF status \in {"CRITICAL", "ERROR"} THEN "danger"
  ELSE IF status = "WARNING" THEN "warning" ELSE "#808080"

SlackAttachment(r, t) ==
  [color |-> SlackColor(r.status),
   fields |->
     <<[title |-> "Website", value |-> r.hostname \o ":" \o ToString(r.port)],
       [title |-> "Status", value |-> r.status]>>
     \o (IF r.days_until_expiry # None
           THEN <<[title |-> "Days Until Expiry",
                   value |-> ToString(Val(r.days_until_expiry))]>>
           ELSE <<>>)
     \o (IF TruthyStr(r.error)
           THEN <<[title |-> "Error", value |-> Val(r.error)]>> ELSE <<>>),
   footer |-> "SSL Certificate Checker",
   ts |-> t]

create_slack_payload(rs, t) ==
  [text |-> "SSL Certificate Alert",
   attachments |-> [i \in 1..Len(rs) |-> SlackAttachment(rs[i], t)]]

\* Mutant: the section leaves the day count out.
TeamsSectionNoDays(r) ==
  [activityTitle |-> "Certificate Alert: " \o r.hostname,
   facts |->
     <<[name |-> "Website", value |-> r.hostname \o ":" \o ToString(r.port)],
       [name |-> "Status", value |-> r.status]>>
     \o (IF TruthyStr(r.error)
           THEN <<[name |-> "Error", value |-> Val(r.error)]>> ELSE <<>>)]

TeamsSection(r) ==
  [activityTitle |-> "Certificate Alert: " \o r.hostname,
   facts |->
     <<[name |-> "Website", value |-> r.hostname \o ":" \o ToString(r.port)],
       [name |-> "Status", value |-> r.status]>>
     \o (IF r.days_until_expiry # None
           THEN <<[name |-> "Days Until Expiry",
                   value |-> ToString(Val(r.days_until_expiry))]>>
           ELSE <<>>)
     \o (IF TruthyStr(r.error)
           THEN <<[name |-> "Error", value |-> Val(r.error)]>> ELSE <<>>)]

create_teams_payload(rs) ==
  [type |-> "MessageCard",
   title |-> "SSL Certificate Alert",
   sections |-> [i \in 1..Len(rs) |-> TeamsSection(rs[i])]]

----------------------------------------------------------------------------
(* send_alerts and the two channels *)

AlertsConfig == Get(config, "alerts", <<>>)

EmailConfig == Get(AlertsConfig, "email", <<>>)

WebhookConfig == Get(AlertsConfig, "webhook", <<>>)

\* Mutant: WARNING is missing from the filter.
AlertStatusesNoWarning == {"CRITICAL", "ERROR"}

AlertStatuses == {"WARNING", "CRITICAL", "ERROR"}

RECURSIVE FilterAlerts(_)
FilterAlerts(rs) ==
  IF rs = <<>> THEN <<>>
  ELSE IF Head(rs).status \in AlertStatuses
         THEN <<Head(rs)>> \o FilterAlerts(Tail(rs))
         ELSE FilterAlerts(Tail(rs))

\* Mutant: alerting is on unless the configuration turns it off.
SendAlertsDefaultOn ==
  /\ pc = "alerts"
  /\ IF ~Get(AlertsConfig, "enabled", TRUE)
       THEN /\ pc' = "exit"
            /\ UNCHANGED alert_results
       ELSE /\ alert_results' = Some(FilterAlerts(results))
            /\ pc' = IF FilterAlerts(results) = <<>> THEN "exit" ELSE "email"
  /\ UNCHANGED <<config, quiet, network, now, futures, nthreads, calls, processed,
                 results, displayed, email, webhook, exit_code>>

\* send_alerts up to the first channel: the two early returns and the filter.
SendAlerts ==
  /\ pc = "alerts"
  /\ IF ~Get(AlertsConfig, "enabled", FALSE)
       THEN /\ pc' = "exit"
            /\ UNCHANGED alert_results
       ELSE /\ alert_results' = Some(FilterAlerts(results))
            /\ pc' = IF FilterAlerts(results) = <<>> THEN "exit" ELSE "email"
  /\ UNCHANGED <<config, quiet, network, now, futures, nthreads, calls, processed,
                 results, displayed, email, webhook, exit_code>>

\* The SMTP session of _send_email_alert, step by step.
SmtpSteps(email_config) ==
  <<"connect">>
  \o (IF Get(email_config, "use_tls", TRUE) THEN <<"starttls">> ELSE <<>>)
  \o (IF /\ Get(email_config, "username", "") # ""
         /\ Get(email_config, "password", "") # ""
        THEN <<"login">> ELSE <<>>)
  \o <<"send_message">>

\* Mutant: the except clause is missing, so a failing step raises.
send_email_alert_uncaught(rs, email_config, fail_at) ==
  [results |-> rs,
   body |-> IF {"from", "to"} \subseteq DOMAIN email_config
              THEN Some(create_alert_message_email(rs)) ELSE None,
   smtp |-> IF ~({"from", "to"} \subseteq DOMAIN email_config) THEN <<>>
            ELSE IF fail_at = 0 THEN SmtpSteps(email_config)
            ELSE SubSeq(SmtpSteps(email_config), 1, fail_at),
   log |-> "",
   raised |-> (fail_at # 0 \/ ~({"from", "to"} \subseteq DOMAIN email_config))]

\* _send_email_alert, the step numbered fail_at raising (0: no step raises).
\* The except clause catches whatever the body raises.
send_email_alert(rs, email_config, fail_at) ==
  IF ~({"from", "to"} \subseteq DOMAIN email_config)
    THEN \* KeyError while the message is put together
         [results |-> rs, body |-> None, smtp |-> <<>>,
          log |-> "Failed to send email alert", raised |-> FALSE]
    ELSE [results |-> rs,
          body |-> Some(create_alert_message_email(rs)),
          smtp |-> IF fail_at = 0 THEN SmtpSteps(email_config)
                   ELSE SubSeq(SmtpSteps(email_config), 1, fail_at),
          log |-> IF fail_at = 0 THEN "Email alert sent successfully"
                  ELSE "Failed to send email alert",
          raised |-> FALSE]

\* Mutant: the except clause is missing, so a failed POST raises.
send_webhook_alert_uncaught(rs, webhook_config, response, t) ==
  LET webhook_type == Get(webhook_config, "type", "slack")
  IN IF "url" \notin DOMAIN webhook_config
       THEN [results |-> rs, posted |-> None, log |-> "", raised |-> TRUE]
     ELSE IF webhook_type \notin {"slack", "teams"}
       THEN [results |-> rs, posted |-> None,
             log |-> "Unsupported webhook type", raised |-> FALSE]
     ELSE [results |-> rs,
           posted |-> Some(IF webhook_type = "slack"
                             THEN create_slack_payload(rs, t)
                             ELSE create_teams_payload(rs)),
           log |-> IF response = "2xx" THEN "webhook alert sent successfully" ELSE "",
           raised |-> response # "2xx"]

\* _send_webhook_alert, the POST answering response.
send_webhook_alert(rs, webhook_config, response, t) ==
  LET webhook_type == Get(webhook_config, "type", "slack")
  IN IF "url" \notin DOMAIN webhook_config
       THEN [results |-> rs, posted |-> None,
             log |-> "Failed to send webhook alert", raised |-> FALSE]
     ELSE IF webhook_type \notin {"slack", "teams"}
       THEN [results |-> rs, posted |-> None,
             log |-> "Unsupported webhook type", raised |-> FALSE]
     ELSE [results |-> rs,
           posted |-> Some(IF webhook_type = "slack"
                             THEN create_slack_payload(rs, t)
                             ELSE create_teams_payload(rs)),
           log |-> IF response = "2xx" THEN "webhook alert sent successfully"
                   ELSE "Failed to send webhook alert",
           raised |-> FALSE]

\* main's "except Exception": an exception leaving send_alerts ends the run.
TopLevelFailure == ExitError

SendEmail ==
  /\ pc = "email"
  /\ IF Get(EmailConfig, "enabled", FALSE)
       THEN \E fail_at \in 0..Len(SmtpSteps(EmailConfig)) :
              LET call == send_email_alert(Val(alert_results), EmailConfig, fail_at)
              IN /\ email' = Some(call)
                 /\ IF call.raised
                      THEN pc' = "done" /\ exit_code' = Some(TopLevelFailure)
                      ELSE pc' = "webhook" /\ UNCHANGED exit_code
       ELSE /\ pc' = "webhook"
            /\ UNCHANGED <<email, exit_code>>
  /\ UNCHANGED <<config, quiet, network, now, futures, nthreads, calls, processed,
                 results, displayed, alert_results, webhook>>

SendWebhook ==
  /\ pc = "webhook"
  /\ IF Get(WebhookConfig, "enabled", FALSE)
       THEN \E response \in {"2xx", "non-2xx", "timeout"} :
              LET call == send_webhook_alert(Val(alert_results), WebhookConfig,
                                             response, now)
              IN /\ webhook' = Some(call)
                 /\ IF call.raised
                      THEN pc' = "done" /\ exit_code' = Some(TopLevelFailure)
                      ELSE pc' = "exit" /\ UNCHANGED exit_code
       ELSE /\ pc' = "exit"
            /\ UNCHANGED <<webhook, exit_code>>
  /\ UNCHANGED <<config, quiet, network, now, futures, nthreads, calls, processed,
                 results, displayed, alert_results, email>>

----------------------------------------------------------------------------
(* main: the exit code *)

CountStatus(rs, status) == Cardinality({i \in 1..Len(rs) : rs[i].status = status})

\* Mutant: the ERROR count is tested before the CRITICAL count.
ExitCodeErrorFirst(rs) ==
  IF CountStatus(rs, "ERROR") > 0 THEN ExitError
  ELSE IF CountStatus(rs, "CRITICAL") > 0 THEN ExitCritical
  ELSE ExitOk

ExitCodeFor(rs) ==
  IF CountStatus(rs, "CRITICAL") > 0 THEN ExitCritical
  ELSE IF CountStatus(rs, "ERROR") > 0 THEN ExitError
  ELSE ExitOk

Exit ==
  /\ pc = "exit"
  /\ exit_code' = Some(ExitCodeFor(results))
  /\ pc' = "done"
  /\ UNCHANGED <<config, quiet, network, now, futures, nthreads, calls, processed,
                 results, displayed, alert_results, email, webhook>>

----------------------------------------------------------------------------
(* The runs that are checked: configuration, network and clock *)

Opt(k, o) == IF o = None THEN <<>> ELSE (k :> Val(o))

Config(websites, max_workers, thresholds, alerts) ==
  [websites |-> websites] @@ Opt("max_workers", max_workers)
  @@ Opt("thresholds", thresholds) @@ Opt("alerts", alerts)

SiteA == [hostname |-> "a.test"]

SiteB == [hostname |-> "b.test", port |-> 8443]

Sites == {SiteA, SiteB}

Hostnames == {"a.test", "b.test"}

SitesUpTo(n) == UNION {[1..k -> Sites] : k \in 0..n}

Days(d) == d * TicksPerDay

\* the thresholds block: left out, complete, or with one key only
ThresholdConfigs ==
  {None}
  \cup {Some([critical |-> c, warning |-> w]) : c, w \in 0..MaxThreshold}
  \cup {Some([critical |-> c]) : c \in 0..MaxThreshold}
  \cup {Some([warning |-> w]) : w \in 0..MaxThreshold}

\* expiry instants on both sides of every threshold a run can be given
ExpiryDates ==
  (Days(-1) .. Days(MaxThreshold + 2) - 1)
  \cup {Days(d) : d \in {DefaultCritical, DefaultCritical + 1,
                         DefaultWarning, DefaultWarning + 1}}

Failures == {Timeout, DnsFailure, TlsFailure, OtherFailure}

AllAnswers == {Cert(t) : t \in ExpiryDates} \cup Failures

\* one answer for every status a result can have, and an expired certificate
StatusAnswers ==
  {Cert(Days(DefaultWarning + 1)), Cert(Days(DefaultWarning)),
   Cert(Days(DefaultCritical)), Cert(Days(-1)), DnsFailure}

\* a success and a failure of each kind the pool has to carry
DispatchAnswers ==
  {Cert(Days(DefaultWarning + 1)), Cert(Days(DefaultCritical)), Timeout, TlsFailure}

Address == [from |-> "certs@a.test", to |-> <<"ops@a.test">>,
            smtp_server |-> "smtp.a.test", smtp_port |-> 587]

EmailOn == Address @@ [enabled |-> TRUE, username |-> "certs", password |-> "secret"]

EmailConfigs ==
  {None,
   Some(Address @@ [enabled |-> FALSE]),
   Some(EmailOn),
   Some(Address @@ [enabled |-> TRUE, use_tls |-> FALSE]),
   Some([enabled |-> TRUE])}

SlackOn == [enabled |-> TRUE, url |-> "https://hooks.a.test/x"]

WebhookConfigs ==
  {None,
   Some([enabled |-> FALSE, url |-> "https://hooks.a.test/x", type |-> "slack"]),
   Some(SlackOn),
   Some(SlackOn @@ [type |-> "teams"]),
   Some(SlackOn @@ [type |-> "discord"])}

Alerts(enabled, e, w) == Opt("enabled", enabled) @@ Opt("email", e) @@ Opt("webhook", w)

\* the alerts block: left out; switched off or without the flag, around
\* channels that are on or left out; switched on, around every channel
AlertsConfigs ==
  {None}
  \cup {Some(Alerts(flag, e, w)) : flag \in {None, Some(FALSE)},
                                   e \in {None, Some(EmailOn)},
                                   w \in {None, Some(SlackOn)}}
  \cup {Some(Alerts(Some(TRUE), e, w)) : e \in EmailConfigs, w \in WebhookConfigs}

\* one host, every thresholds block, every answer
ClassifyRuns ==
  {[config |-> Config(<<site>>, None, th, None),
    network |-> [h \in Hostnames |-> AllAnswers],
    quiet |-> q] :
     site \in Sites, th \in ThresholdConfigs, q \in BOOLEAN}

\* every list of up to MaxHosts sites, duplicates included, on every pool size
DispatchRuns ==
  {[config |-> Config(ws, mw, None, None),
    network |-> [h \in Hostnames |-> DispatchAnswers],
    quiet |-> TRUE] :
     ws \in SitesUpTo(MaxHosts),
     mw \in {None} \cup {Some(n) : n \in 1..MaxWorkers}}

\* two hosts of every pair of statuses, under every alerts block
AlertRuns ==
  {[config |-> Config(<<SiteA, SiteB>>, Some(1), None, al),
    network |-> [h \in Hostnames |-> StatusAnswers],
    quiet |-> FALSE] :
     al \in AlertsConfigs}

Runs == ClassifyRuns \cup DispatchRuns \cup AlertRuns

----------------------------------------------------------------------------
(* The specification *)

Init ==
  /\ \E run \in Runs :
       /\ config = run.config
       /\ network = run.network
       /\ quiet = run.quiet
  /\ now = 0
  /\ pc = "start"
  /\ futures = <<>>
  /\ nthreads = 0
  /\ calls = <<>>
  /\ processed = <<>>
  /\ results = <<>>
  /\ displayed = None
  /\ alert_results = None
  /\ email = None
  /\ webhook = None
  /\ exit_code = None

\* Time passes while the run is under way.
Tick ==
  /\ pc # "done"
  /\ now < MaxClock
  /\ now' = now + 1
  /\ UNCHANGED <<config, quiet, network, pc, futures, nthreads, calls, processed,
                 results, displayed, alert_results, email, webhook, exit_code>>

Next ==
  \/ Tick
  \/ CheckAllStart
  \/ Submit
  \/ FetchStart
  \/ \E i \in 1..Len(futures) : FetchFinish(i)
  \/ \E i \in 1..Len(futures) : Collect(i)
  \/ CheckAllReturn
  \/ Display
  \/ SendAlerts
  \/ SendEmail
  \/ SendWebhook
  \/ Exit

Spec == Init /\ [][Next]_vars

\* The scheduling the run relies on: the main thread goes on whenever it can,
\* a free worker takes the next queued fetch, and every fetch that was
\* started ends, with an answer or at its timeout.
Fairness ==
  /\ WF_vars(CheckAllStart)
  /\ WF_vars(Submit)
  /\ WF_vars(FetchStart)
  /\ WF_vars(\E i \in 1..Len(futures) : FetchFinish(i))
  /\ WF_vars(\E i \in 1..Len(futures) : Collect(i))
  /\ WF_vars(CheckAllReturn)

FairSpec == Init /\ [][Next]_vars /\ Fairness

----------------------------------------------------------------------------
(* Shorthands of the properties *)

\* the thresholds the configuration asks for
Critical ==
  IF "thresholds" \in DOMAIN config /\ "critical" \in DOMAIN config.thresholds
    THEN config.thresholds.critical ELSE DefaultCritical

Warning ==
  IF "thresholds" \in DOMAIN config /\ "warning" \in DOMAIN config.thresholds
    THEN config.thresholds.warning ELSE DefaultWarning

Fetched(r) == r.days_until_expiry # None

DaysOf(r) == Val(r.days_until_expiry)

Returned == pc \in {"checked", "alerts", "email", "webhook", "exit", "done"}

NonOk == {i \in 1..Len(results) : results[i].status \in {"WARNING", "CRITICAL", "ERROR"}}

StatusesOf(rs) == {rs[i].status : i \in 1..Len(rs)}

AlertsEnabled == "alerts" \in DOMAIN config /\ "enabled" \in DOMAIN config.alerts
                 /\ config.alerts.enabled

ChannelEnabled(ch) == /\ AlertsEnabled
                      /\ ch \in DOMAIN config.alerts
                      /\ "enabled" \in DOMAIN config.alerts[ch]
                      /\ config.alerts[ch].enabled

\* rs is the list of the non-OK results, in the order of self.results
IsAlertList(rs) ==
  /\ Len(rs) = Cardinality(NonOk)
  /\ \A k \in 1..Len(rs) : rs[k].status # "OK"
  /\ \E f \in [1..Len(rs) -> NonOk] :
       /\ \A k \in 1..Len(rs) : rs[k] = results[f[k]]
       /\ \A k, l \in 1..Len(rs) : k < l => f[k] < f[l]

\* what an entry has to show for the day count and for the details
DaysText(r) == IF r.days_until_expiry = None THEN "N/A"
               ELSE ToString(Val(r.days_until_expiry))

DetailsText(r) == IF r.error = None THEN "Certificate expiring soon" ELSE Val(r.error)

Values(entries) == {entries[k].value : k \in 1..Len(entries)}

EntryComplete(r, entries) ==
  {r.hostname \o ":" \o ToString(r.port), r.status, DaysText(r), DetailsText(r)}
    \subseteq Values(entries)

----------------------------------------------------------------------------
(* C1: a fetched certificate with d days left is recorded CRITICAL whenever *)
(* d <= critical (negative d and d <= warning included) and WARNING         *)
(* whenever critical < d <= warning.                                        *)
C1_CriticalBeforeWarning ==
  \A i \in 1..Len(results) :
    Fetched(results[i]) =>
      /\ DaysOf(results[i]) <= Critical => results[i].status = "CRITICAL"
      /\ (Critical < DaysOf(results[i]) /\ DaysOf(results[i]) <= Warning)
           => results[i].status = "WARNING"

\* an expired certificate under both thresholds beside one between them
C1_Witness ==
  \E i, j \in 1..Len(results) :
    /\ Fetched(results[i]) /\ Fetched(results[j])
    /\ DaysOf(results[i]) < 0 /\ DaysOf(results[i]) <= Critical
    /\ DaysOf(results[i]) <= Warning /\ results[i].status = "CRITICAL"
    /\ Critical < DaysOf(results[j]) /\ DaysOf(results[j]) <= Warning
    /\ results[j].status = "WARNING"

(* C2, as claimed: a fetched certificate with d > warning is recorded OK,   *)
(* under every pair of thresholds.                                          *)
C2_OkAboveWarning ==
  \A i \in 1..Len(results) :
    (Fetched(results[i]) /\ DaysOf(results[i]) > Warning)
      => results[i].status = "OK"

(* C2, amended: a fetched certificate with d > warning and d > critical is  *)
(* recorded OK, under every pair of thresholds.                             *)
C2_OkAboveBoth ==
  \A i \in 1..Len(results) :
    (Fetched(results[i]) /\ DaysOf(results[i]) > Warning
                         /\ DaysOf(results[i]) > Critical)
      => results[i].status = "OK"

\* critical above warning, and a certificate beyond both
C2_Witness ==
  /\ "thresholds" \in DOMAIN config
  /\ Critical > Warning
  /\ \E i \in 1..Len(results) :
       /\ Fetched(results[i]) /\ DaysOf(results[i]) > Critical
       /\ results[i].status = "OK"

(* C3: every failed fetch is recorded with status ERROR, no day count and   *)
(* a non-empty error message, whatever the thresholds.                      *)
C3_FailureIsError ==
  /\ Len(results) = Len(processed)
  /\ \A k \in 1..Len(results) :
       Val(futures[processed[k]].answer).kind # "cert" =>
         /\ results[k].status = "ERROR"
         /\ results[k].days_until_expiry = None
         /\ results[k].expiry_date = None
         /\ results[k].error # None
         /\ Val(results[k].error) # ""

\* a failure recorded under thresholds the configuration sets
C3_Witness ==
  /\ "thresholds" \in DOMAIN config
  /\ \E k \in 1..Len(results) :
       /\ Val(futures[processed[k]].answer).kind = "ssl.SSLError"
       /\ results[k].status = "ERROR"

(* C4: the fetcher is invoked once per configured target, in no case more,  *)
(* and check_all_certificates returns only when every fetch has finished,   *)
(* with one result per target.                                              *)
C4_OneResultPerTarget ==
  /\ Len(calls) = Cardinality({i \in 1..Len(futures) : futures[i].state # "pending"})
  /\ Len(futures) <= Len(Websites)
  /\ Returned =>
       /\ Len(calls) = Len(Websites)
       /\ \A i \in 1..Len(Websites) :
            calls[i] = <<Websites[i].hostname, Get(Websites[i], "port", DefaultPort)>>
       /\ \A i \in 1..Len(futures) : futures[i].state = "finished"
       /\ Len(results) = Len(Websites)
       /\ Yielded = 1..Len(Websites)
       /\ \A k \in 1..Len(results) :
            /\ results[k].hostname = Websites[processed[k]].hostname
            /\ results[k].port = Get(Websites[processed[k]], "port", DefaultPort)

\* the same target twice, both fetches failing, collected in reverse order
C4_Witness ==
  /\ Returned
  /\ Len(Websites) = 2 /\ Websites[1] = Websites[2]
  /\ processed = <<2, 1>>
  /\ \A k \in 1..Len(results) : results[k].status = "ERROR"

(* C5: never more than max_workers fetches are in progress; a target past   *)
(* the limit starts only once a running fetch has finished.                 *)
C5_BoundedConcurrency ==
  /\ Cardinality(Running) <= ConfiguredMaxWorkers
  /\ nthreads <= ConfiguredMaxWorkers

\* the pool is full, a target waits, and it started a fetch after one ended
C5_Witness ==
  /\ Cardinality(Running) = ConfiguredMaxWorkers
  /\ InState("finished") # {}
  /\ \E i \in Running : i > ConfiguredMaxWorkers

(* C6: a channel is handed exactly the results whose status is WARNING,     *)
(* CRITICAL or ERROR, never an OK one; with no such result no channel is    *)
(* attempted.                                                               *)
C6_OnlyNonOkAlerted ==
  /\ email # None => IsAlertList(Val(email).results)
  /\ webhook # None => IsAlertList(Val(webhook).results)
  /\ NonOk = {} => (email = None /\ webhook = None)

\* both channels were handed a list while an OK result stayed out of it
C6_Witness ==
  /\ email # None /\ webhook # None
  /\ "OK" \in StatusesOf(results)
  /\ "WARNING" \in StatusesOf(Val(email).results)
  /\ Len(Val(webhook).results) < Len(results)

(* C7: with alerts and both channels enabled and a non-OK result, the       *)
(* webhook send is attempted whether the e-mail send succeeded or failed.   *)
C7_WebhookAfterEmail ==
  (/\ pc \in {"exit", "done"}
   /\ ChannelEnabled("email") /\ ChannelEnabled("webhook")
   /\ NonOk # {})
    => /\ email # None
       /\ webhook # None
       /\ ("url" \in DOMAIN config.alerts.webhook
           /\ Get(config.alerts.webhook, "type", "slack") \in {"slack", "teams"})
            => Val(webhook).posted # None

\* the e-mail failed at login, and the webhook was posted all the same
C7_Witness ==
  /\ email # None /\ webhook # None
  /\ Val(email).log = "Failed to send email alert"
  /\ Val(email).smtp = <<"connect", "starttls", "login">>
  /\ Val(webhook).posted # None

(* C8: the exit code is 2 whenever a result is CRITICAL, ERROR results or   *)
(* not, and 1 whenever a result is ERROR and none is CRITICAL, in whatever  *)
(* order the results completed.                                             *)
C8_CriticalDominates ==
  pc = "done" =>
    /\ "CRITICAL" \in StatusesOf(results) => exit_code = Some(ExitCritical)
    /\ ("ERROR" \in StatusesOf(results) /\ "CRITICAL" \notin StatusesOf(results))
         => exit_code = Some(ExitError)

\* an ERROR completed before a CRITICAL, and the run ended with 2
C8_Witness ==
  /\ pc = "done"
  /\ Len(results) = 2
  /\ results[1].status = "ERROR" /\ results[2].status = "CRITICAL"
  /\ exit_code = Some(ExitCritical)

(* C9, as claimed: a completed run exits with 0 if and only if every result *)
(* is OK.                                                                   *)
C9_ZeroIffAllOk ==
  pc = "done" => (exit_code = Some(ExitOk) <=> StatusesOf(results) \subseteq {"OK"})

(* C10, as claimed: every rendered entry carries host:port and status, the  *)
(* day count or "N/A" when there is none, and the error message or, when    *)
(* there is none, the note "Certificate expiring soon".                     *)
C10_EntriesComplete ==
  /\ (email # None /\ Val(email).body # None) =>
       \A k \in 1..Len(Val(email).results) :
         LET r == Val(email).results[k]
             row == Val(Val(email).body)[k]
         IN /\ row.website = r.hostname \o ":" \o ToString(r.port)
            /\ row.status = r.status
            /\ row.days = DaysText(r)
            /\ row.details = DetailsText(r)
  /\ (webhook # None /\ Val(webhook).posted # None) =>
       \A k \in 1..Len(Val(webhook).results) :
         LET r == Val(webhook).results[k]
             payload == Val(Val(webhook).posted)
         IN IF "attachments" \in DOMAIN payload
              THEN EntryComplete(r, payload.attachments[k].fields)
              ELSE EntryComplete(r, payload.sections[k].facts)

\* the titled values of a Slack attachment and of a Teams section
SlackEntry(a) == [k \in 1..Len(a.fields) |-> <<a.fields[k].title, a.fields[k].value>>]

TeamsEntry(sec) == [k \in 1..Len(sec.facts) |-> <<sec.facts[k].name, sec.facts[k].value>>]

SameEntries(rs, attachments, sections) ==
  /\ Len(attachments) = Len(rs)
  /\ Len(sections) = Len(rs)
  /\ \A k \in 1..Len(rs) :
       /\ SlackEntry(attachments[k]) = TeamsEntry(sections[k])
       /\ SlackEntry(attachments[k])[1] =
            <<"Website", rs[k].hostname \o ":" \o ToString(rs[k].port)>>
       /\ SlackEntry(attachments[k])[2] = <<"Status", rs[k].status>>

(* C11: the Slack payload and the Teams payload of one filtered list hold   *)
(* one entry per result, in the same order, with equal host:port, status,  *)
(* day count and error values.                                              *)
C11_SlackTeamsAgree ==
  (webhook # None /\ Val(webhook).posted # None) =>
    LET rs == Val(webhook).results
        payload == Val(Val(webhook).posted)
    IN IF "attachments" \in DOMAIN payload
         THEN SameEntries(rs, payload.attachments, create_teams_payload(rs).sections)
         ELSE SameEntries(rs, create_slack_payload(rs, now).attachments, payload.sections)

\* a Slack payload was posted for an ERROR result and a WARNING result
C11_Witness ==
  /\ webhook # None /\ Val(webhook).posted # None
  /\ "attachments" \in DOMAIN Val(Val(webhook).posted)
  /\ StatusesOf(Val(webhook).results) = {"ERROR", "WARNING"}

\* s contains w
Contains(s, w) == \E i \in 1..(Len(s) - Len(w) + 1) : SubSeq(s, i, i + Len(w) - 1) = w

\* the result a host's own answer calls for, at some instant of the run
OwnResult(r, f) ==
  LET answer == Val(f.answer)
  IN /\ r.hostname = f.hostname
     /\ r.port = f.port
     /\ IF answer.kind = "cert"
          THEN /\ r.error = None
               /\ r.expiry_date = Some(answer.notAfter)
               /\ r.days_until_expiry # None
               /\ \E t \in 0..now :
                    /\ DaysOf(r) * TicksPerDay <= answer.notAfter - t
                    /\ answer.notAfter - t < (DaysOf(r) + 1) * TicksPerDay
               /\ r.status = IF DaysOf(r) <= Critical THEN "CRITICAL"
                             ELSE IF DaysOf(r) <= Warning THEN "WARNING" ELSE "OK"
          ELSE /\ r.error # None
               /\ Contains(Val(r.error), f.hostname)
               /\ \A h \in Hostnames \ {f.hostname} : ~Contains(Val(r.error), h)
               /\ r.expiry_date = None
               /\ r.days_until_expiry = None
               /\ r.status = "ERROR"

(* C12: the result recorded for a host is decided by that host's own answer *)
(* and the thresholds, whatever the other hosts answered, and another       *)
(* host's failure never keeps the result from being recorded.               *)
C12_OwnOutcomeOnly ==
  /\ Len(results) = Len(processed)
  /\ \A k \in 1..Len(results) : OwnResult(results[k], futures[processed[k]])
  /\ Returned => Yielded = 1..Len(Websites)

\* a certificate recorded OK right after another host's fetch had failed
C12_Witness ==
  /\ Returned
  /\ Len(results) = 2
  /\ futures[processed[1]].hostname # futures[processed[2]].hostname
  /\ Val(futures[processed[1]].answer).kind = "socket.timeout"
  /\ results[1].status = "ERROR"
  /\ results[2].status = "OK" /\ results[2].error = None

\* the exit code the statuses of the results call for
ExitCodeOfResults ==
  IF "CRITICAL" \in StatusesOf(results) THEN ExitCritical
  ELSE IF "ERROR" \in StatusesOf(results) THEN ExitError
  ELSE ExitOk

(* C13: a failure inside the e-mail send or the webhook send is caught in   *)
(* that send; send_alerts returns normally and the exit code is the one the *)
(* results call for, whether the sends succeeded or failed.                 *)
C13_SendFailuresContained ==
  /\ email # None => ~Val(email).raised
  /\ webhook # None => ~Val(webhook).raised
  /\ pc = "done" => exit_code = Some(ExitCodeOfResults)

\* both sends failed and the run ended with the code of its results, 0
C13_Witness ==
  /\ pc = "done"
  /\ email # None /\ Val(email).log = "Failed to send email alert"
  /\ webhook # None /\ Val(webhook).posted # None
  /\ Val(webhook).log = "Failed to send webhook alert"
  /\ StatusesOf(results) = {"WARNING", "OK"}
  /\ exit_code = Some(ExitOk)

\* some text of the set says that the certificate has expired
Marked(texts) ==
  \E x \in texts : \E w \in {"EXPIRED", "Expired", "expired"} : Contains(x, w)

Expired(r) == r.days_until_expiry # None /\ Val(r.days_until_expiry) < 0

DisplayTexts(entry) == {entry[k] : k \in 1..Len(entry)}

RowTexts(row) == {row.website, row.status, row.days, row.expiry, row.details}

AttachmentTexts(a) ==
  {a.color, a.footer} \cup {a.fields[k].title : k \in 1..Len(a.fields)}
                      \cup {a.fields[k].value : k \in 1..Len(a.fields)}

SectionTexts(sec) ==
  {sec.activityTitle} \cup {sec.facts[k].name : k \in 1..Len(sec.facts)}
                      \cup {sec.facts[k].value : k \in 1..Len(sec.facts)}

\* the rendering is marked exactly when the result has expired
MarkedIffExpired(r, texts) == Marked(texts) <=> Expired(r)

(* C14, as claimed: a result with a negative day count is CRITICAL, and the *)
(* console report, the e-mail body, the Slack payload and the Teams payload *)
(* each mark it as expired, with a marker no other result carries.          *)
C14_ExpiredMarkedEverywhere ==
  /\ \A k \in 1..Len(results) : Expired(results[k]) => results[k].status = "CRITICAL"
  /\ displayed # None =>
       \A k \in 1..Len(results) :
         MarkedIffExpired(results[k], DisplayTexts(Val(displayed)[k]))
  /\ (email # None /\ Val(email).body # None) =>
       \A k \in 1..Len(Val(email).results) :
         MarkedIffExpired(Val(email).results[k], RowTexts(Val(Val(email).body)[k]))
  /\ (webhook # None /\ Val(webhook).posted # None) =>
       \A k \in 1..Len(Val(webhook).results) :
         LET payload == Val(Val(webhook).posted)
         IN MarkedIffExpired(Val(webhook).results[k],
                             IF "attachments" \in DOMAIN payload
                               THEN AttachmentTexts(payload.attachments[k])
                               ELSE SectionTexts(payload.sections[k]))

\* the part of C14 the console report alone is held to
C14_ConsoleOnly ==
  /\ \A k \in 1..Len(results) : Expired(results[k]) => results[k].status = "CRITICAL"
  /\ displayed # None =>
       \A k \in 1..Len(results) :
         MarkedIffExpired(results[k], DisplayTexts(Val(displayed)[k]))

\* every list a later stage worked from is taken from self.results as it is
FromResults ==
  /\ displayed # None => Len(Val(displayed)) = Len(results)
  /\ alert_results # None => IsAlertList(Val(alert_results))
  /\ email # None => Val(email).results = Val(alert_results)
  /\ webhook # None => Val(webhook).results = Val(alert_results)
  /\ exit_code # None => exit_code = Some(ExitCodeOfResults)

(* C15: once check_all_certificates has returned, no step changes the       *)
(* results, starts a fetch or classifies again, and the report, the alerts  *)
(* and the exit code all work from that one list.                           *)
C15_ResultsFrozen ==
  [][Returned => /\ results' = results
                 /\ calls' = calls
                 /\ futures' = futures
                 /\ processed' = processed
                 /\ FromResults']_vars

\* a run that reported, alerted on both channels and exited
C15_Witness ==
  /\ pc = "done"
  /\ displayed # None /\ email # None /\ webhook # None
  /\ Len(results) = 2
  /\ Len(Val(alert_results)) = 1

\* check_all_certificates has returned with every result collected
ReturnedComplete ==
  /\ Returned
  /\ Len(futures) = Len(Websites)
  /\ \A i \in 1..Len(futures) : futures[i].state = "finished"
  /\ Len(results) = Len(Websites)

(* C16: when every fetch that is started ends and the threads are scheduled *)
(* fairly, check_all_certificates eventually returns with every result      *)
(* collected, for every number of hosts and every max_workers >= 1.         *)
C16_EventuallyReturns == <>ReturnedComplete

\* returned although a host queued behind a fetch that ran into its timeout
C16_Witness ==
  /\ ReturnedComplete
  /\ Len(Websites) > ConfiguredMaxWorkers
  /\ Val(futures[1].answer).kind = "socket.timeout"
  /\ calls # <<>> /\ Len(calls) = Len(Websites)

\* the results are those of the futures the loop has consumed, one each, in
\* the order of consumption
OnePerConsumed ==
  /\ Len(results) = Len(processed)
  /\ \A k, l \in 1..Len(processed) : processed[k] = processed[l] => k = l
  /\ \A k \in 1..Len(results) :
       /\ results[k].hostname = futures[processed[k]].hostname
       /\ results[k].port = futures[processed[k]].port

\* a step of a worker thread: a fetch starts or ends
WorkerStep == futures' # futures /\ Len(futures') = Len(futures)

\* a step that changes the collection adds one entry at its end, and is a
\* turn of the consuming loop for a future that has finished
OneAppendByConsumer ==
  /\ pc = "collect" /\ pc' = "collect"
  /\ futures' = futures
  /\ Len(results') = Len(results) + 1
  /\ SubSeq(results', 1, Len(results)) = results
  /\ \E i \in 1..Len(futures) :
       /\ futures[i].state = "finished"
       /\ processed' = Append(processed, i)

(* C17: the result collection is append-only with a single writer: a step   *)
(* of a worker thread leaves it as it is, every change of it is one append  *)
(* made by the loop that consumes completions, and whatever the completion  *)
(* order it holds exactly one result per consumed future.                   *)
C17_SingleWriter ==
  [][/\ WorkerStep => results' = results
     /\ results' # results => OneAppendByConsumer
     /\ OnePerConsumed /\ OnePerConsumed']_vars

\* the second host's result was appended while the first fetch is running
C17_Witness ==
  /\ processed = <<2>>
  /\ Len(results) = 1
  /\ 1 \in InState("running")

\* every configured host has been fetched, classified and recorded
AllRecorded ==
  /\ "websites" \in DOMAIN config => Len(futures) = Len(config.websites)
  /\ \A i \in 1..Len(futures) :
       /\ futures[i].state = "finished"
       /\ futures[i].ret # None
       /\ \E k \in 1..Len(results) :
            /\ processed[k] = i
            /\ results[k].hostname = futures[i].hostname
            /\ results[k].status \in {"OK", "WARNING", "CRITICAL", "ERROR"}
  /\ Len(results) = Len(futures)

\* send_alerts has been entered: main is past it, or inside it
AlertingBegun ==
  \/ pc \in {"email", "webhook", "exit", "done"}
  \/ alert_results # None \/ email # None \/ webhook # None

(* C18: in a run of main no alert channel is attempted, and the list of     *)
(* results to report is not built, before every host's fetch has finished   *)
(* and its result has been classified and recorded; what a channel is given *)
(* is the selection from the whole result set.                              *)
C18_AlertsAfterAllFetches ==
  /\ AlertingBegun => AllRecorded
  /\ email # None => IsAlertList(Val(email).results)
  /\ webhook # None => IsAlertList(Val(webhook).results)

\* both channels were attempted after a run in which the second host's
\* result was recorded first
C18_Witness ==
  /\ email # None /\ webhook # None
  /\ Len(processed) = 2 /\ processed[1] = 2
  /\ Len(calls) = 2

\* the channel's own 'enabled' flag, whatever the top-level flag is
ChannelFlag(ch) ==
  /\ "alerts" \in DOMAIN config
  /\ ch \in DOMAIN config.alerts
  /\ "enabled" \in DOMAIN config.alerts[ch]
  /\ config.alerts[ch].enabled

(* C19: when the top-level alerts 'enabled' flag is false or absent no      *)
(* channel is attempted, whatever the results and the channels' own flags;  *)
(* when it is true a channel is attempted only if its own flag is true.     *)
C19_FlagsGateChannels ==
  /\ ~AlertsEnabled => email = None /\ webhook = None /\ alert_results = None
  /\ email # None => AlertsEnabled /\ ChannelFlag("email")
  /\ webhook # None => AlertsEnabled /\ ChannelFlag("webhook")

\* the run ended without an attempt although a channel's own flag is on and
\* there was something to report
C19_Witness ==
  /\ pc = "done"
  /\ ~AlertsEnabled
  /\ ChannelFlag("email") \/ ChannelFlag("webhook")
  /\ \E k \in 1..Len(results) : results[k].status # "OK"
  /\ email = None /\ webhook = None

====
